---- MODULE Spec2Model ----
(***************************************************************************)
(* The OTP registry of src/js/py/app.py: the module-level dictionary OTP,  *)
(* the key function k, put (Issue), verify (Verify) and the two request    *)
(* handlers otp_send and otp_verify.                                        *)
(*                                                                         *)
(* A Python str is a sequence of one-character strings.  Python's None is  *)
(* the one-element sequence <<"None">>, which no str equals because every  *)
(* element of a str is a single character.  The clock time.time() is the   *)
(* integer variable now, in seconds.                                        *)
(***************************************************************************)
EXTENDS Integers, Sequences, FiniteSets, TLC

VARIABLES
    OTP,      \* the dictionary: identity key -> <<code, expiresAt>>
    now,      \* the reading of time.time()
    last,     \* the call that just ended: its arguments and its outcome
    hist,     \* history: per key, issue time + ttl of the latest put for the key
    nticks,   \* how often the clock has been advanced
    th,       \* per request thread: position and locals of a call in flight
    built,    \* history: every <<key, tuple>> a put call has built
    ncalls    \* how many calls the request threads have begun

vars == <<OTP, now, last, hist, nticks, th, built, ncalls>>

----------------------------------------------------------------------------
(* Bounds of the model *)

MaxTicks == 2
MaxCalls == 3

(* Program constants *)

DefaultTTL == 600
CodeBase == 100000
CodeSpan == 900000

----------------------------------------------------------------------------
(* Values *)

None == <<"None">>

S_empty == <<>>
S_a == <<"a">>
S_a_b == <<"a", ":", ":", "b">>
S_c == <<"c">>
S_C_sp == <<" ", "C", "\t">>
S_b_c == <<"b", ":", ":", "c">>

\* (loan_id, to) of direct calls of put and verify
Pairs == {<<S_a, S_c>>, <<S_a, S_C_sp>>, <<S_a, S_b_c>>, <<S_a_b, S_c>>, <<S_a_b, S_C_sp>>}
\* (loan_id, to) of the calls of concurrent request threads
ConcPairs == {<<S_a, S_c>>, <<S_a_b, S_c>>}
\* (loan_id, to) of direct calls that the handlers would have turned away
EmptyPairs == {<<S_a, S_empty>>, <<S_empty, S_c>>, <<S_empty, S_empty>>}
\* fields of a request body as data.get reads them, None when missing
JsonLoanIds == {S_a, S_a_b, S_empty, None}
JsonTos == {S_c, S_C_sp, S_empty, None}
Draws == {0, CodeSpan - 1}
TTLs == {0, DefaultTTL}
Deltas == {DefaultTTL}

falsyNoneOnly(x) == x = None

\* not x, for a str or None
falsy(x) == x = None \/ x = <<>>

----------------------------------------------------------------------------
(* str methods and conversions *)

Whitespace == {" ", "\t", "\n"}

RECURSIVE lstrip(_)
lstrip(s) ==
    IF s = <<>> THEN s
    ELSE IF Head(s) \in Whitespace THEN lstrip(Tail(s)) ELSE s

RECURSIVE rstrip(_)
rstrip(s) ==
    IF s = <<>> THEN s
    ELSE IF s[Len(s)] \in Whitespace THEN rstrip(SubSeq(s, 1, Len(s) - 1)) ELSE s

strip(s) == rstrip(lstrip(s))

lowerChar(c) ==
    CASE c = "A" -> "a"
      [] c = "B" -> "b"
      [] c = "C" -> "c"
      [] OTHER -> c

DigitChars == <<"0", "1", "2", "3", "4", "5", "6", "7", "8", "9">>

RECURSIVE str(_)
str(n) ==
    IF n < 10 THEN <<DigitChars[n + 1]>>
    ELSE str(n \div 10) \o <<DigitChars[(n % 10) + 1]>>

\* f"{x}": a str is inserted as it is, None as the four characters None
format(x) == IF x = None THEN <<"N", "o", "n", "e">> ELSE x

Codes == {str(r + CodeBase) : r \in Draws}
Candidates == Codes \cup {S_c}
JsonCodes == Candidates \cup {None}

----------------------------------------------------------------------------
(* The registry functions *)

\* to.strip() raises AttributeError when to is None
kRaises(loan_id, to) == to = None

lowerForgotten(s) == s

lower(s) == [i \in 1..Len(s) |-> lowerChar(s[i])]

k(loan_id, to) == format(loan_id) \o <<":", ":">> \o lower(strip(to))

newCodeNoBase(r) == str(r)

\* str(secrets.randbelow(900000)+100000), r the number drawn
newCode(r) == str(r + CodeBase)

expiresAtNoTtl(t, ttl) == t

expiresAt(t, ttl) == t + ttl

\* OTP.setdefault(key, rec)
setdefault(otp, key, rec) ==
    [x \in (DOMAIN otp) \cup {key} |-> IF x \in DOMAIN otp THEN otp[x] ELSE rec]

\* the dictionary rebuilt with the new record alone
setitemAlone(otp, key, rec) == [x \in {key} |-> rec]

\* the two fields written one after the other, the second write still missing
setitemTorn(otp, key, rec) ==
    [x \in (DOMAIN otp) \cup {key} |->
        IF x # key THEN otp[x]
        ELSE IF key \in DOMAIN otp THEN <<rec[1], otp[key][2]>> ELSE rec]

\* OTP[key] = rec
setitem(otp, key, rec) ==
    [x \in (DOMAIN otp) \cup {key} |-> IF x = key THEN rec ELSE otp[x]]

\* OTP.get(key): the record, or None
get(otp, key) == IF key \in DOMAIN otp THEN otp[key] ELSE None

\* the dictionary as OTP.pop(key, None) leaves it
afterPop(otp, key) == [x \in (DOMAIN otp) \ {key} |-> otp[x]]

\* the dictionary after a lookup that drops the record once it has expired
afterGetEvicting(otp, key) ==
    [x \in {y \in DOMAIN otp : y # key \/ now < otp[y][2]} |-> otp[x]]

\* the dictionary as OTP.get(key) leaves it
afterGet(otp, key) == otp

codeMatches(rec, code) == rec[1] = code

notExpiredSwapped(t, rec) == rec[2] < t

notExpiredInclusive(t, rec) == t <= rec[2]

notExpired(t, rec) == t < rec[2]

verifyResultNoExpiry(rec, code, t) ==
    rec # None /\ codeMatches(rec, code)

\* bool(rec) and rec[0]==code and time.time()<rec[1]
verifyResult(rec, code, t) ==
    rec # None /\ codeMatches(rec, code) /\ notExpired(t, rec)

\* put as a function of the dictionary, the clock and the draw
putCall(otp, t, loan_id, to, ttl, r) ==
    IF kRaises(loan_id, to)
    THEN [exc |-> "AttributeError", otp |-> otp]
    ELSE LET code == newCode(r)
             rec == <<code, expiresAt(t, ttl)>>
         IN [exc |-> "", ret |-> code, key |-> k(loan_id, to),
             otp |-> setitem(otp, k(loan_id, to), rec)]

\* verify as a function of the dictionary and the clock
verifyCall(otp, t, loan_id, to, code) ==
    IF kRaises(loan_id, to)
    THEN [exc |-> "AttributeError", otp |-> otp]
    ELSE LET key == k(loan_id, to)
         IN [exc |-> "", ret |-> verifyResult(get(otp, key), code, t), key |-> key,
             otp |-> afterGet(otp, key)]

\* what a call hands back: the exception, or the value returned
outcome(out) ==
    IF out.exc = "" THEN [exc |-> "", ret |-> out.ret, key |-> out.key]
    ELSE [exc |-> out.exc]

histAfterPut(key, ttl) ==
    [x \in (DOMAIN hist) \cup {key} |-> IF x = key THEN now + ttl ELSE hist[x]]

----------------------------------------------------------------------------
(* Request threads *)

Threads == {"t1", "t2"}

Idle == [pc |-> "idle"]

----------------------------------------------------------------------------
(* Sequential calls: one action per call *)

Init ==
    /\ OTP = <<>>
    /\ now = 0
    /\ last = [op |-> "init"]
    /\ hist = <<>>
    /\ nticks = 0
    /\ th = [i \in Threads |-> Idle]
    /\ built = {}
    /\ ncalls = 0

\* history: the code a put replaces, None when the key had no record
replacedCode(out) ==
    IF out.exc = "" /\ out.key \in DOMAIN OTP THEN OTP[out.key][1] ELSE None

\* history: the address of the put that ended right before this verify, when it
\* was for the same key, else None
justIssuedTo(out) ==
    IF /\ out.exc = ""
       /\ last.op = "put"
       /\ last.out.exc = ""
       /\ last.out.key = out.key
    THEN last.to ELSE None

\* history: the call that ended right before this verify was a successful verify
\* with the same arguments
justVerified(loan_id, to, code) ==
    /\ last.op = "verify"
    /\ last.out.exc = ""
    /\ last.out.ret
    /\ last.loan_id = loan_id
    /\ last.to = to
    /\ last.code = code

put(loan_id, to, ttl, r) ==
    LET out == putCall(OTP, now, loan_id, to, ttl, r)
    IN /\ OTP' = out.otp
       /\ hist' = IF out.exc = "" THEN histAfterPut(out.key, ttl) ELSE hist
       /\ last' = [op |-> "put", loan_id |-> loan_id, to |-> to, ttl |-> ttl,
                   out |-> outcome(out), prev |-> replacedCode(out)]

Put ==
    /\ \E p \in Pairs, ttl \in TTLs, r \in Draws : put(p[1], p[2], ttl, r)
    /\ UNCHANGED <<now, nticks, th, built, ncalls>>

verify(loan_id, to, code) ==
    LET out == verifyCall(OTP, now, loan_id, to, code)
    IN /\ OTP' = out.otp
       /\ last' = [op |-> "verify", loan_id |-> loan_id, to |-> to, code |-> code,
                   out |-> outcome(out), issuedTo |-> justIssuedTo(out),
                   repeat |-> justVerified(loan_id, to, code)]

Verify ==
    /\ \E p \in Pairs, code \in Candidates : verify(p[1], p[2], code)
    /\ UNCHANGED <<now, hist, nticks, th, built, ncalls>>

Tick ==
    /\ nticks < MaxTicks
    /\ \E d \in Deltas : now' = now + d
    /\ nticks' = nticks + 1
    /\ last' = [op |-> "tick"]
    /\ UNCHANGED <<OTP, hist, th, built, ncalls>>

Next == Put \/ Verify \/ Tick

Spec == Init /\ [][Next]_vars

\* the clock keeps advancing
SpecLive == Init /\ [][Next]_vars /\ WF_vars(Tick)

----------------------------------------------------------------------------
(* Direct calls with empty arguments *)

PutEmpty ==
    /\ \E p \in EmptyPairs, r \in Draws : put(p[1], p[2], DefaultTTL, r)
    /\ UNCHANGED <<now, nticks, th, built, ncalls>>

VerifyEmpty ==
    /\ \E p \in EmptyPairs, code \in Candidates : verify(p[1], p[2], code)
    /\ UNCHANGED <<now, hist, nticks, th, built, ncalls>>

NextEmpty == PutEmpty \/ VerifyEmpty \/ Tick

SpecEmpty == Init /\ [][NextEmpty]_vars

----------------------------------------------------------------------------
(* The request handlers: one action per request *)

sendResponseWithCode(code) == [ok |-> TRUE, code |-> code]

\* jsonify(ok=True), after put has returned code
sendResponse(code) == [ok |-> TRUE]

\* otp_send as a function of the dictionary, the clock and the draw
otpSendCall(otp, t, loanId, to, r) ==
    IF falsy(loanId) \/ falsy(to)
    THEN [called |-> FALSE, otp |-> otp,
          resp |-> [ok |-> FALSE, error |-> "Missing fields"]]
    ELSE LET out == putCall(otp, t, loanId, to, DefaultTTL, r)
         IN [called |-> TRUE, otp |-> out.otp, key |-> out.key,
             printed |-> <<out.ret, to>>, resp |-> sendResponse(out.ret)]

otp_send(loanId, to, r) ==
    LET res == otpSendCall(OTP, now, loanId, to, r)
    IN /\ OTP' = res.otp
       /\ hist' = IF res.called THEN histAfterPut(res.key, DefaultTTL) ELSE hist
       /\ last' = IF res.called
                  THEN [op |-> "otp_send", loanId |-> loanId, to |-> to, called |-> TRUE,
                        printed |-> res.printed, resp |-> res.resp]
                  ELSE [op |-> "otp_send", loanId |-> loanId, to |-> to, called |-> FALSE,
                        resp |-> res.resp]

OtpSend ==
    /\ \E loanId \in JsonLoanIds, to \in JsonTos, r \in Draws : otp_send(loanId, to, r)
    /\ UNCHANGED <<now, nticks, th, built, ncalls>>

verifyResponseByCause(ok) ==
    [ok |-> ok,
     error |-> IF ok THEN "None"
               ELSE IF OTP = <<>> THEN "No code issued" ELSE "Invalid or expired code"]

\* jsonify(ok=ok, error=None if ok else 'Invalid or expired code')
verifyResponse(ok) ==
    [ok |-> ok, error |-> IF ok THEN "None" ELSE "Invalid or expired code"]

otp_verify(loanId, to, code) ==
    LET out == verifyCall(OTP, now, loanId, to, code)
    IN /\ OTP' = out.otp
       /\ last' = IF out.exc # ""
                  THEN [op |-> "otp_verify", loanId |-> loanId, to |-> to, code |-> code,
                        exc |-> out.exc]
                  ELSE [op |-> "otp_verify", loanId |-> loanId, to |-> to, code |-> code,
                        exc |-> "",
                        resp |-> verifyResponse(out.ret)]

OtpVerify ==
    /\ \E loanId \in JsonLoanIds, to \in JsonTos, code \in JsonCodes :
          otp_verify(loanId, to, code)
    /\ UNCHANGED <<now, hist, nticks, th, built, ncalls>>

NextHttp == OtpSend \/ OtpVerify \/ Tick

SpecHttp == Init /\ [][NextHttp]_vars

----------------------------------------------------------------------------
(* Concurrent request threads: one action per access to the dictionary or the
   clock.  put evaluates str(secrets.randbelow(..)), then the tuple with its
   reading of the clock, then stores it with one dictionary assignment; verify
   reads the dictionary once and then compares and reads the clock. *)

atRest(i) == th[i].pc \in {"idle", "put_done", "ver_done"}

BeginPut(i) ==
    /\ atRest(i)
    /\ ncalls < MaxCalls
    /\ ncalls' = ncalls + 1
    /\ \E p \in ConcPairs, r \in Draws :
          th' = [th EXCEPT ![i] = [pc |-> "put_build", loan_id |-> p[1], to |-> p[2],
                                   code |-> newCode(r)]]
    /\ UNCHANGED <<OTP, now, last, hist, nticks, built>>

PutBuild(i) ==
    /\ th[i].pc = "put_build"
    /\ LET val == <<th[i].code, expiresAt(now, DefaultTTL)>>
       IN /\ th' = [th EXCEPT ![i] = [pc |-> "put_store", loan_id |-> th[i].loan_id,
                                      to |-> th[i].to, code |-> th[i].code,
                                      val |-> val]]
          /\ built' = built \cup {<<k(th[i].loan_id, th[i].to), val>>}
    /\ UNCHANGED <<OTP, now, last, hist, nticks, ncalls>>

PutStore(i) ==
    /\ th[i].pc = "put_store"
    /\ OTP' = setitem(OTP, k(th[i].loan_id, th[i].to), th[i].val)
    /\ th' = [th EXCEPT ![i] = [pc |-> "put_done", key |-> k(th[i].loan_id, th[i].to),
                                val |-> th[i].val]]
    /\ UNCHANGED <<now, last, hist, nticks, built, ncalls>>

BeginVerify(i) ==
    /\ atRest(i)
    /\ ncalls < MaxCalls
    /\ ncalls' = ncalls + 1
    /\ \E p \in ConcPairs, code \in Codes :
          th' = [th EXCEPT ![i] = [pc |-> "ver_get", loan_id |-> p[1], to |-> p[2],
                                   code |-> code]]
    /\ UNCHANGED <<OTP, now, last, hist, nticks, built>>

VerGet(i) ==
    /\ th[i].pc = "ver_get"
    /\ LET key == k(th[i].loan_id, th[i].to)
       IN /\ th' = [th EXCEPT ![i] = [pc |-> "ver_check", key |-> key,
                                      code |-> th[i].code, rec |-> get(OTP, key)]]
          /\ OTP' = afterGet(OTP, key)
    /\ UNCHANGED <<now, last, hist, nticks, built, ncalls>>

VerCheck(i) ==
    /\ th[i].pc = "ver_check"
    /\ th' = [th EXCEPT ![i] = [pc |-> "ver_done", key |-> th[i].key, rec |-> th[i].rec,
                                ret |-> verifyResult(th[i].rec, th[i].code, now)]]
    /\ UNCHANGED <<OTP, now, last, hist, nticks, built, ncalls>>

NextConc ==
    \/ \E i \in Threads : BeginPut(i)
    \/ \E i \in Threads : PutBuild(i)
    \/ \E i \in Threads : PutStore(i)
    \/ \E i \in Threads : BeginVerify(i)
    \/ \E i \in Threads : VerGet(i)
    \/ \E i \in Threads : VerCheck(i)
    \/ Tick

SpecConc == Init /\ [][NextConc]_vars

----------------------------------------------------------------------------
(* Properties of the registry *)

isPut(l) == l.op = "put" /\ l.out.exc = ""
isVerify(l) == l.op = "verify" /\ l.out.exc = ""

\* the part of s between its first and its last non-whitespace character
Trimmed(s) ==
    LET idx == {i \in 1..Len(s) : s[i] \notin Whitespace}
    IN IF idx = {} THEN <<>>
       ELSE SubSeq(s, CHOOSE i \in idx : \A j \in idx : i <= j,
                      CHOOSE i \in idx : \A j \in idx : i >= j)

CasePairs == {<<"A", "a">>, <<"B", "b">>, <<"C", "c">>}

SameLetter(c, d) == c = d \/ <<c, d>> \in CasePairs \/ <<d, c>> \in CasePairs

\* two addresses that differ only by surrounding whitespace or letter case
SameAddress(t1, t2) ==
    LET a == Trimmed(t1)
        b == Trimmed(t2)
    IN Len(a) = Len(b) /\ \A i \in 1..Len(a) : SameLetter(a[i], b[i])

\* the same (transactionId, trimmed lower-cased recipient address)
SameIdentity(l1, t1, l2, t2) == l1 = l2 /\ SameAddress(t1, t2)

\* C1: verify returns true exactly when a record exists at the identity key, the
\* candidate code equals the stored code and the clock is strictly before
\* expiresAt; at now = expiresAt it returns false.
C1_VerifyIff ==
    isVerify(last) =>
        LET key == k(last.loan_id, last.to)
        IN /\ last.out.ret <=> /\ key \in DOMAIN OTP
                               /\ OTP[key][1] = last.code
                               /\ now < OTP[key][2]
           /\ (key \in DOMAIN OTP /\ now = OTP[key][2]) => ~last.out.ret

C1_Witness ==
    /\ isVerify(last)
    /\ last.out.key \in DOMAIN OTP
    /\ OTP[last.out.key][1] = last.code
    /\ now = OTP[last.out.key][2]
    /\ now > 0
    /\ ~last.out.ret

C3_NoCollision ==
    [][isPut(last') =>
         \A p \in Pairs :
            ~SameIdentity(last'.loan_id, last'.to, p[1], p[2]) =>
               /\ k(p[1], p[2]) # last'.out.key
               /\ \A c \in Candidates :
                     verifyCall(OTP', now', p[1], p[2], c).ret
                        = verifyCall(OTP, now, p[1], p[2], c).ret]_vars

\* C4: put with an empty transaction identifier or an empty recipient address
\* fails with InvalidInput and leaves the mapping as it was.
C4_EmptyRejected ==
    [][(last'.op = "put" /\ (last'.loan_id = <<>> \/ last'.to = <<>>)) =>
         /\ last'.out.exc = "InvalidInput"
         /\ OTP' = OTP]_vars

\* C5: put with non-empty arguments and the default TTL, followed immediately by
\* verify with the same pair and the returned code, succeeds.
C5_IssueThenVerify ==
    [][(/\ isPut(last)
        /\ last.ttl = DefaultTTL
        /\ last'.op = "verify"
        /\ last'.loan_id = last.loan_id
        /\ last'.to = last.to
        /\ last'.code = last.out.ret) =>
         /\ last'.out.exc = ""
         /\ last'.out.ret]_vars

C5_Witness ==
    /\ isVerify(last)
    /\ last.issuedTo = last.to
    /\ last.out.key \in DOMAIN hist
    /\ hist[last.out.key] = now + DefaultTTL
    /\ last.code = OTP[last.out.key][1]
    /\ last.out.ret

\* C6: a verify request never ends in a fault: also with no record at the key or
\* with loanId, to or code missing, otp_verify answers with a not-verified result.
C6_VerifyNeverRaises ==
    last.op = "otp_verify" =>
        /\ last.exc = ""
        /\ (last.loanId = None \/ last.to = None \/ last.code = None) =>
              ~last.resp.ok

\* C7: verify leaves the mapping as it was, whatever its outcome.
C7_VerifyNoSideEffect ==
    [][last'.op = "verify" => OTP' = OTP]_vars

C7_Witness ==
    /\ isVerify(last)
    /\ last.out.ret
    /\ last.out.key \in DOMAIN OTP
    /\ OTP[last.out.key][1] = last.code

\* C8: verify at a time later than issue time + ttl of the latest put for the key
\* returns false, also with the stored code.
C8_ExpiredFails ==
    (/\ isVerify(last)
     /\ last.out.key \in DOMAIN hist
     /\ now > hist[last.out.key]) => ~last.out.ret

C8_Witness ==
    /\ isVerify(last)
    /\ last.out.key \in DOMAIN hist
    /\ now > hist[last.out.key]
    /\ hist[last.out.key] > 0
    /\ last.code = OTP[last.out.key][1]
    /\ ~last.out.ret

\* C9: two addresses that differ only by surrounding whitespace or letter case
\* give, with the same transactionId, the same key and the same verify outcome
\* for every code, and verify with one right after put with the other succeeds
\* with the returned code while the record has not expired.
C9_NormalizedAddress ==
    /\ [](\A p \in Pairs, q \in Pairs :
            (p[1] = q[1] /\ SameAddress(p[2], q[2])) =>
               /\ k(p[1], p[2]) = k(q[1], q[2])
               /\ \A c \in Candidates :
                     verifyCall(OTP, now, p[1], p[2], c).ret
                        = verifyCall(OTP, now, q[1], q[2], c).ret)
    /\ [][(/\ isPut(last)
            /\ last'.op = "verify"
            /\ last'.loan_id = last.loan_id
            /\ SameAddress(last.to, last'.to)
            /\ last'.code = last.out.ret
            /\ now' < OTP[last.out.key][2]) =>
           /\ last'.out.exc = ""
           /\ last'.out.key = last.out.key
           /\ last'.out.ret]_vars

C9_Witness ==
    /\ isVerify(last)
    /\ last.issuedTo # None
    /\ last.issuedTo # last.to
    /\ SameAddress(last.issuedTo, last.to)
    /\ last.out.ret

\* C10: under every interleaving of the threads, every record in the mapping and
\* every record a verify has read is a tuple that one put call for that key
\* built, code and expiresAt together; once both threads have returned from a
\* put for the same key, the stored record is the tuple of one of the two.
C10_NoTornRecord ==
    /\ \A key \in DOMAIN OTP : <<key, OTP[key]>> \in built
    /\ \A i \in Threads :
          (th[i].pc \in {"ver_check", "ver_done"} /\ th[i].rec # None) =>
             <<th[i].key, th[i].rec>> \in built
    /\ \A i \in Threads, j \in Threads :
          (/\ i # j
           /\ th[i].pc = "put_done"
           /\ th[j].pc = "put_done"
           /\ th[i].key = th[j].key) =>
             OTP[th[i].key] \in {th[i].val, th[j].val}

C10_Witness ==
    \E i \in Threads, j \in Threads :
       /\ i # j
       /\ th[i].pc = "put_done"
       /\ th[j].pc \in {"ver_check", "ver_done"}
       /\ th[j].key = th[i].key
       /\ th[j].rec # None
       /\ th[j].rec # th[i].val
       /\ th[j].rec[1] # th[i].val[1]
       /\ th[j].rec[2] # th[i].val[2]
       /\ OTP[th[i].key] = th[i].val

\* C11: a code is not consumed by use.  A verify that would succeed keeps
\* succeeding across every step that is not a put for its key, as long as the
\* clock is before expiresAt; and a verify that follows a successful verify with
\* the same arguments succeeds too.
C11_NotConsumed ==
    [][/\ \A p \in Pairs, c \in Candidates :
            (/\ verifyCall(OTP, now, p[1], p[2], c).ret
             /\ ~(isPut(last') /\ last'.out.key = k(p[1], p[2]))
             /\ now' < OTP[k(p[1], p[2])][2]) =>
               verifyCall(OTP', now', p[1], p[2], c).ret
       /\ (/\ isVerify(last)
           /\ last.out.ret
           /\ isVerify(last')
           /\ last'.loan_id = last.loan_id
           /\ last'.to = last.to
           /\ last'.code = last.code) =>
             last'.out.ret]_vars

C11_Witness ==
    /\ isVerify(last)
    /\ last.repeat
    /\ last.out.ret
    /\ now > 0

\* C12: otp_send with loanId or to missing or empty answers with a failure
\* indicator, does not call put and leaves the mapping as it was.
C12_MissingFieldsRejected ==
    [][(/\ last'.op = "otp_send"
        /\ \/ last'.loanId \in {None, <<>>}
           \/ last'.to \in {None, <<>>}) =>
         /\ ~last'.resp.ok
         /\ ~last'.called
         /\ OTP' = OTP]_vars

C12_Witness ==
    /\ last.op = "otp_send"
    /\ last.loanId = <<>>
    /\ last.to = S_c
    /\ ~last.resp.ok
    /\ ~last.called
    /\ OTP # <<>>

\* C13: the response of otp_send does not carry the code.  For the request of
\* every otp_send step, the responses under any two draws are the same while the
\* codes stored and handed to the delivery channel differ.
C13_CodeNotInResponse ==
    [][(last'.op = "otp_send") =>
         \A r1 \in Draws, r2 \in Draws :
            LET res1 == otpSendCall(OTP, now, last'.loanId, last'.to, r1)
                res2 == otpSendCall(OTP, now, last'.loanId, last'.to, r2)
            IN /\ res1.resp = res2.resp
               /\ (last'.called /\ r1 # r2) =>
                     /\ res1.printed[1] # res2.printed[1]
                     /\ res1.otp[res1.key][1] # res2.otp[res2.key][1]
               /\ \E r \in Draws :
                     last'.resp = otpSendCall(OTP, now, last'.loanId, last'.to, r).resp]_vars

C13_Witness ==
    /\ last.op = "otp_send"
    /\ last.called
    /\ last.resp.ok
    /\ last.printed[1] = OTP[k(last.loanId, last.to)][1]
    /\ last.printed[1] = str(CodeBase + CodeSpan - 1)

\* C14: the answer of otp_verify is fixed by the boolean result alone: error is
\* set exactly when the result is false, and every failure answer is the same
\* record whether the key has no record, the code differs or the record has
\* expired.
C14_VerifyResponseUniform ==
    (last.op = "otp_verify" /\ last.exc = "") =>
        /\ last.resp.ok \in BOOLEAN
        /\ last.resp.ok <=> last.resp.error = "None"
        /\ ~last.resp.ok =>
              last.resp = [ok |-> FALSE, error |-> "Invalid or expired code"]
        /\ last.resp.ok => last.resp = [ok |-> TRUE, error |-> "None"]

C14_Witness ==
    /\ last.op = "otp_verify"
    /\ last.exc = ""
    /\ ~last.resp.ok
    /\ OTP = <<>>
    /\ last.code \in Codes
    /\ last.loanId = S_a
    /\ last.to = S_c

DigitOf(c) == CHOOSE d \in 0..9 : DigitChars[d + 1] = c

RECURSIVE DecValue(_)
DecValue(s) ==
    IF s = <<>> THEN 0
    ELSE 10 * DecValue(SubSeq(s, 1, Len(s) - 1)) + DigitOf(s[Len(s)])

SixDigits(s) ==
    /\ Len(s) = 6
    /\ \A i \in 1..6 : \E d \in 1..10 : DigitChars[d] = s[i]
    /\ s[1] # "0"
    /\ DecValue(s) >= 100000
    /\ DecValue(s) <= 999999

\* C15: every record holds a code of exactly 6 decimal digits without a leading
\* zero, with value in [100000, 999999], and the code a put returns is the code
\* stored at its key.
C15_SixDigitCode ==
    /\ \A key \in DOMAIN OTP : SixDigits(OTP[key][1])
    /\ isPut(last) =>
          /\ SixDigits(last.out.ret)
          /\ last.out.key \in DOMAIN OTP
          /\ OTP[last.out.key][1] = last.out.ret

C15_Witness ==
    /\ isPut(last)
    /\ Cardinality(DOMAIN OTP) = 2
    /\ \E key \in DOMAIN OTP : DecValue(OTP[key][1]) = 100000
    /\ \E key \in DOMAIN OTP : DecValue(OTP[key][1]) = 999999

\* C16: a put changes the mapping only at its own key: every other key keeps its
\* record, and the key's record becomes (returned code, now + ttl), inserted when
\* the key was absent and replaced when it was present, live or expired.
C16_PutFrame ==
    [][isPut(last') =>
         /\ DOMAIN OTP' = (DOMAIN OTP) \cup {last'.out.key}
         /\ \A x \in (DOMAIN OTP) \ {last'.out.key} : OTP'[x] = OTP[x]
         /\ OTP'[last'.out.key] = <<last'.out.ret, now + last'.ttl>>
         /\ last'.out.key = k(last'.loan_id, last'.to)]_vars

C16_Witness ==
    /\ isPut(last)
    /\ last.prev # None
    /\ last.prev # last.out.ret
    /\ Cardinality(DOMAIN OTP) = 2
    /\ now > 0
    /\ \E x \in DOMAIN OTP : x # last.out.key /\ OTP[x][2] <= now

\* C17: no step removes a record: the set of keys never shrinks, and a record,
\* expired or not, stays as it is in every step that is not a put for its key.
C17_NeverEvicted ==
    [][/\ (DOMAIN OTP) \subseteq (DOMAIN OTP')
       /\ \A x \in DOMAIN OTP :
             ~(isPut(last') /\ last'.out.key = x) => OTP'[x] = OTP[x]]_vars

C17_Witness ==
    /\ isVerify(last)
    /\ last.out.key \in DOMAIN OTP
    /\ last.code = OTP[last.out.key][1]
    /\ OTP[last.out.key][2] + DefaultTTL <= now
    /\ ~last.out.ret

Keys == {k(p[1], p[2]) : p \in Pairs}

\* the readings the clock takes, the last of them when it has stopped
Readings == {i * DefaultTTL : i \in 0..MaxTicks}

holds(K, c, e) == K \in DOMAIN OTP /\ OTP[K] = <<c, e>>

expired(otp, t, K) == K \in DOMAIN otp /\ t >= otp[K][2]

\* C18: while the clock keeps advancing, every record whose expiresAt the clock
\* reaches is in the end expired or replaced by a put; an expired record fails
\* verify for every code, and it stays expired in every step that is not a put for
\* its key.
C18_EventuallyExpired ==
    /\ \A K \in Keys, c \in Codes, e \in Readings :
          holds(K, c, e) ~> (~holds(K, c, e) \/ now >= e)
    /\ [][/\ \A p \in Pairs :
               expired(OTP, now, k(p[1], p[2])) =>
                  /\ \A c \in Candidates : ~verifyCall(OTP, now, p[1], p[2], c).ret
                  /\ ~(isPut(last') /\ last'.out.key = k(p[1], p[2])) =>
                        expired(OTP', now', k(p[1], p[2]))
          /\ (isVerify(last') /\ expired(OTP, now, last'.out.key)) =>
                ~last'.out.ret]_vars

C18_Witness ==
    /\ last.op = "tick"
    /\ \E K \in DOMAIN OTP : OTP[K][2] = now /\ hist[K] = now
    /\ now > 0

====
